---- MODULE Spec2Model ----
(***************************************************************************)
(* A model of the character-level preprocessing pipeline of notes.ipynb:   *)
(* vocabulary construction, the encode/decode codec, the encoded corpus    *)
(* tensor, the train/validation split and the sliding-window loop.         *)
(*                                                                         *)
(* Symbols are code points (integers).  A Python string and a Python list  *)
(* are sequences; a dict is a function; a 1-D torch tensor is a view       *)
(* [off, len] onto the storage `data`, because basic slicing of a tensor   *)
(* returns a view that shares the storage of the tensor it was cut from.   *)
(* A Python exception raised by a call is recorded in result.error.        *)
(***************************************************************************)
EXTENDS Integers, Sequences, FiniteSets

\* ---------------------------------------------------------------- bounds
\* longest corpus text (content)
MaxLen == 5
\* longest text handed to encode
MaxText == 2
\* longest id list handed to decode
MaxIds == 1
\* largest start offset of a window
MaxStart == 1

\* block_size = 8
block_size == 8

\* ' ' (32), ',' (44) and 'h' (104): whitespace, punctuation and a letter
Alphabet == {32, 44, 104}

\* the split ratio in tenths: 0.1, 0.2, ..., 0.9 (the notebook uses 0.9)
Tenths == 1..9

VARIABLES content, chars, vocab_size, char_to_idx, idx_to_char,
          data, train_tenths, n, train_data, val_data, stage, result

vars == <<content, chars, vocab_size, char_to_idx, idx_to_char,
          data, train_tenths, n, train_data, val_data, stage, result>>

\* ------------------------------------------------------------- helpers
Min(a, b) == IF a < b THEN a ELSE b

Range(s) == {s[i] : i \in 1..Len(s)}

SeqsUpTo(S, k) == UNION {[1..m -> S] : m \in 0..k}

\* ------------------------------------------------- vocabulary (cell 2)
\* set(content): the distinct symbols of a string
set(text) == Range(text)

\* sorted(list(S)): the elements of S in ascending code-point order
RECURSIVE sorted(_)
sorted(S) ==
    IF S = {} THEN <<>>
    ELSE LET m == CHOOSE a \in S : \A b \in S : a <= b
         IN  <<m>> \o sorted(S \ {m})

\* the distinct symbols in order of first occurrence (no sort)
RECURSIVE FirstOccurrences(_)
FirstOccurrences(text) ==
    IF text = <<>> THEN <<>>
    ELSE LET front == FirstOccurrences(SubSeq(text, 1, Len(text) - 1))
             last == text[Len(text)]
         IN  IF last \in Range(front) THEN front ELSE Append(front, last)

\* chars = sorted(list(set(content)))
BuildChars(text) == sorted(set(text))

\* ------------------------------------------------------ codec (cell 3)
\* {i: ch for i, ch in enumerate(chars, 1)}
IdxToCharFromOne(cs) == [i \in 1..Len(cs) |-> cs[i]]

\* char_to_idx = {ch: i for i, ch in enumerate(chars)}; a later pair wins
mk_char_to_idx(cs) ==
    [ch \in Range(cs) |->
        (CHOOSE i \in 1..Len(cs) :
            cs[i] = ch /\ \A j \in (i+1)..Len(cs) : cs[j] # ch) - 1]

\* idx_to_char = {i: ch for i, ch in enumerate(chars)}
mk_idx_to_char(cs) == [i \in 0..(Len(cs) - 1) |-> cs[i + 1]]

\* the outcome of a call: what it returned, or the exception it raised
NoResult ==
    [op |-> "none", text |-> <<>>, ids |-> <<>>, decoded |-> <<>>,
     start |-> 0, length |-> 0,
     context |-> <<>>, target |-> <<>>, examples |-> <<>>,
     error |-> "none", key |-> -1]

\* [d[c] for c in s], element by element: a missing key raises KeyError(c)
RECURSIVE Lookup(_, _, _, _)
Lookup(d, s, k, acc) ==
    IF k > Len(s) THEN [error |-> "none", key |-> -1, out |-> acc]
    ELSE IF s[k] \notin DOMAIN d
         THEN [error |-> "KeyError", key |-> s[k], out |-> <<>>]
         ELSE Lookup(d, s, k + 1, Append(acc, d[s[k]]))

\* [char_to_idx[c] for c in s if c in char_to_idx]
RECURSIVE SkipLookup(_, _, _, _)
SkipLookup(d, s, k, acc) ==
    IF k > Len(s) THEN [error |-> "none", key |-> -1, out |-> acc]
    ELSE IF s[k] \notin DOMAIN d
         THEN SkipLookup(d, s, k + 1, acc)
         ELSE SkipLookup(d, s, k + 1, Append(acc, d[s[k]]))

EncodeSkipping(s) == SkipLookup(char_to_idx, s, 1, <<>>)

\* encode = lambda s: [char_to_idx[c] for c in s]
encode(s) == Lookup(char_to_idx, s, 1, <<>>)

\* decode = lambda l: ''.join([idx_to_char[i] for i in l])
decode(l) == Lookup(idx_to_char, l, 1, <<>>)

\* ------------------------------------------------------ tensors, views
\* the whole storage as a view
Whole(d) == [off |-> 0, len |-> Len(d)]

\* t[a:b] on a 1-D tensor, 0 <= a, 0 <= b: bounds are clamped, never raise
SliceView(v, a, b) ==
    LET lo == Min(a, v.len)
        hi == Min(b, v.len)
    IN  [off |-> v.off + lo, len |-> IF hi > lo THEN hi - lo ELSE 0]

\* the elements a view shows of its storage d
Values(d, v) == [i \in 1..v.len |-> d[v.off + i]]

\* ------------------------------------------------------ split (cell 5)
\* n = int(0.9 * len(data)), the ratio given in tenths.  The binary
\* floating-point product truncates to the integer quotient: 0.1, ..., 0.9
\* times a length this small never rounds across an integer.
split_n(tenths, length) == (tenths * length) \div 10

\* data[n+1:]
ValFromNext(d, k) == SliceView(Whole(d), k + 1, Len(d))

\* train_data = data[:n]
train_of(d, k) == SliceView(Whole(d), 0, k)

\* val_data = data[n:]
val_of(d, k) == SliceView(Whole(d), k, Len(d))

\* --------------------------------------------- sliding window (cell 7)
\* train_data[1:block_size]
YShort(region, start, length) == SliceView(region, start + 1, start + length)

\* x = train_data[:block_size], cut at `start` instead of 0
x_of(region, start, length) == SliceView(region, start, start + length)

\* y = train_data[1:block_size+1], cut at `start` instead of 0
y_of(region, start, length) == SliceView(region, start + 1, start + length + 1)

\* the pair (x, y)
window(region, start, length) ==
    [context |-> x_of(region, start, length),
     target |-> y_of(region, start, length)]

\* x[:i]
ContextShort(x, i) == SliceView(x, 0, i)

\* context = x[:i+1]
context_of(x, i) == SliceView(x, 0, i + 1)

\* for i in range(block_size): context = x[:i+1]; target = y[i]; print(...)
\* y[i] with i >= len(y) raises IndexError and ends the loop
RECURSIVE loop(_, _, _, _, _, _)
loop(d, x, y, i, max_context, acc) ==
    IF i >= max_context THEN [error |-> "none", examples |-> acc]
    ELSE LET context == context_of(x, i)
         IN  IF i >= y.len
             THEN [error |-> "IndexError", examples |-> acc]
             ELSE loop(d, x, y, i + 1, max_context,
                       Append(acc, [context |-> Values(d, context),
                                    target |-> d[y.off + i + 1]]))

\* the whole of cell 7 on a region, a start offset and a block size
generate_at(d, region, start, max_context) ==
    loop(d, x_of(region, start, max_context),
         y_of(region, start, max_context), 0, max_context, <<>>)

\* train_data[:block_size]+1: a new tensor, element-wise
plus_one(d, region) ==
    LET v == Values(d, SliceView(region, 0, block_size))
    IN  [i \in 1..Len(v) |-> v[i] + 1]

\* -------------------------------------------------------------- state
Init ==
    /\ content \in SeqsUpTo(Alphabet, MaxLen)
    /\ chars = <<>>
    /\ vocab_size = 0
    /\ char_to_idx = <<>>
    /\ idx_to_char = <<>>
    /\ data = <<>>
    /\ train_tenths = 9
    /\ n = 0
    /\ train_data = [off |-> 0, len |-> 0]
    /\ val_data = [off |-> 0, len |-> 0]
    /\ stage = "loaded"
    /\ result = NoResult

CodecBuilt == stage \in {"codec", "stored", "ready"}

\* no expression is being evaluated: the last value has been printed and dropped
Idle == result.op = "none"

\* cell 2: chars, vocab_size
BuildVocabulary ==
    /\ stage = "loaded"
    /\ chars' = BuildChars(content)
    /\ vocab_size' = Len(chars')
    /\ stage' = "vocab"
    /\ UNCHANGED <<content, char_to_idx, idx_to_char, data, train_tenths, n,
                   train_data, val_data, result>>

\* cell 3: the two dictionaries
BuildCodec ==
    /\ stage = "vocab"
    /\ char_to_idx' = mk_char_to_idx(chars)
    /\ idx_to_char' = mk_idx_to_char(chars)
    /\ stage' = "codec"
    /\ UNCHANGED <<content, chars, vocab_size, data, train_tenths, n,
                   train_data, val_data, result>>

\* cell 3: encode(s)
Encode ==
    /\ CodecBuilt
    /\ Idle
    /\ \E s \in SeqsUpTo(Alphabet, MaxText) :
         LET r == encode(s)
         IN  result' = [NoResult EXCEPT !.op = "encode", !.text = s,
                          !.ids = r.out, !.error = r.error, !.key = r.key]
    /\ UNCHANGED <<content, chars, vocab_size, char_to_idx, idx_to_char,
                   data, train_tenths, n, train_data, val_data, stage>>

\* decode(l)
Decode ==
    /\ CodecBuilt
    /\ Idle
    /\ \E l \in SeqsUpTo(0..Cardinality(Alphabet), MaxIds) :
         LET r == decode(l)
         IN  result' = [NoResult EXCEPT !.op = "decode", !.ids = l,
                          !.decoded = r.out, !.error = r.error, !.key = r.key]
    /\ UNCHANGED <<content, chars, vocab_size, char_to_idx, idx_to_char,
                   data, train_tenths, n, train_data, val_data, stage>>

\* cell 3: decode(encode(s)); an exception in encode ends the expression
DecodeEncode ==
    /\ CodecBuilt
    /\ Idle
    /\ Idle
    /\ \E s \in SeqsUpTo(Alphabet, MaxText) :
         LET e == encode(s)
             d == decode(e.out)
         IN  result' =
               IF e.error # "none"
               THEN [NoResult EXCEPT !.op = "decode_encode", !.text = s,
                       !.error = e.error, !.key = e.key]
               ELSE [NoResult EXCEPT !.op = "decode_encode", !.text = s,
                       !.ids = e.out, !.decoded = d.out,
                       !.error = d.error, !.key = d.key]
    /\ UNCHANGED <<content, chars, vocab_size, char_to_idx, idx_to_char,
                   data, train_tenths, n, train_data, val_data, stage>>

\* cell 4: data = torch.tensor(encode(content), dtype=torch.long)
Store ==
    /\ stage = "codec"
    /\ encode(content).error = "none"
    /\ data' = encode(content).out
    /\ stage' = "stored"
    /\ UNCHANGED <<content, chars, vocab_size, char_to_idx, idx_to_char,
                   train_tenths, n, train_data, val_data, result>>

\* cell 5: n, train_data, val_data
Split ==
    /\ stage = "stored"
    /\ \E t \in Tenths :
         /\ train_tenths' = t
         /\ n' = split_n(t, Len(data))
    /\ train_data' = train_of(data, n')
    /\ val_data' = val_of(data, n')
    /\ stage' = "ready"
    /\ UNCHANGED <<content, chars, vocab_size, char_to_idx, idx_to_char,
                   data, result>>

\* train_data[:block_size]+1, also onto the tensor itself (add_)
PlusOneInPlace ==
    /\ stage = "ready"
    /\ Idle
    /\ result' = [NoResult EXCEPT !.op = "plus_one", !.ids = plus_one(data, train_data)]
    /\ data' = [i \in 1..Len(data) |->
                  IF i \in (train_data.off + 1)..
                           (train_data.off + Min(block_size, train_data.len))
                  THEN data[i] + 1 ELSE data[i]]
    /\ UNCHANGED <<content, chars, vocab_size, char_to_idx, idx_to_char,
                   train_tenths, n, train_data, val_data, stage>>

\* cell 6: train_data[:block_size]+1
PlusOne ==
    /\ stage = "ready"
    /\ Idle
    /\ result' = [NoResult EXCEPT !.op = "plus_one", !.ids = plus_one(data, train_data)]
    /\ UNCHANGED <<content, chars, vocab_size, char_to_idx, idx_to_char,
                   data, train_tenths, n, train_data, val_data, stage>>

\* cell 7, first two lines: x, y
Window ==
    /\ stage = "ready"
    /\ Idle
    /\ \E start \in 0..MaxStart, length \in 1..block_size :
         LET w == window(train_data, start, length)
         IN  result' = [NoResult EXCEPT !.op = "window", !.start = start,
                          !.length = length, !.context = Values(data, w.context),
                          !.target = Values(data, w.target)]
    /\ UNCHANGED <<content, chars, vocab_size, char_to_idx, idx_to_char,
                   data, train_tenths, n, train_data, val_data, stage>>

\* cell 7: the sliding-window loop
GenerateAt ==
    /\ stage = "ready"
    /\ Idle
    /\ \E start \in 0..MaxStart, max_context \in 1..block_size :
         LET g == generate_at(data, train_data, start, max_context)
         IN  result' = [NoResult EXCEPT !.op = "generate_at", !.start = start,
                          !.length = max_context, !.examples = g.examples,
                          !.error = g.error]
    /\ UNCHANGED <<content, chars, vocab_size, char_to_idx, idx_to_char,
                   data, train_tenths, n, train_data, val_data, stage>>

\* the value of the expression is printed (print, or the cell's output) and dropped
Show ==
    /\ ~Idle
    /\ result' = NoResult
    /\ UNCHANGED <<content, chars, vocab_size, char_to_idx, idx_to_char,
                   data, train_tenths, n, train_data, val_data, stage>>

Next ==
    \/ BuildVocabulary
    \/ BuildCodec
    \/ Encode
    \/ Decode
    \/ DecodeEncode
    \/ Store
    \/ Split
    \/ PlusOne
    \/ Window
    \/ GenerateAt
    \/ Show

Spec == Init /\ [][Next]_vars

\* =============================================================== claims
region == Values(data, train_data)

\* C1: round trip. For a vocabulary built from the corpus and every text all
\* of whose symbols are in the vocabulary (the empty text, whitespace and
\* punctuation included), decode(encode(t)) raises nothing and equals t,
\* symbol for symbol and in the same order.
C1_RoundTrip ==
    (result.op = "decode_encode" /\ Range(result.text) \subseteq Range(chars))
        => /\ result.error = "none"
           /\ Len(result.decoded) = Len(result.text)
           /\ \A k \in 1..Len(result.text) : result.decoded[k] = result.text[k]

\* a two-symbol text with a space in it has gone through decode(encode(.))
C1_Witness ==
    /\ result.op = "decode_encode"
    /\ content # <<>>
    /\ Len(result.text) = 2
    /\ result.text[1] # result.text[2]
    /\ 32 \in Range(result.text)
    /\ result.error = "none"

\* "hello, world" as a corpus: ids by sorted order, and its encoding
HelloWorld == <<104, 101, 108, 108, 111, 44, 32, 119, 111, 114, 108, 100>>

HelloWorldIds ==
    LET cs == BuildChars(HelloWorld)
    IN  /\ cs = <<32, 44, 100, 101, 104, 108, 111, 114, 119>>
        /\ mk_char_to_idx(cs) =
             [c \in {32, 44, 100, 101, 104, 108, 111, 114, 119} |->
                CASE c = 32 -> 0 [] c = 44 -> 1 [] c = 100 -> 2
                  [] c = 101 -> 3 [] c = 104 -> 4 [] c = 108 -> 5
                  [] c = 111 -> 6 [] c = 114 -> 7 [] c = 119 -> 8]
        /\ Lookup(mk_char_to_idx(cs), HelloWorld, 1, <<>>).out =
             <<4, 3, 5, 5, 6, 1, 0, 8, 6, 7, 5, 2>>

\* C2: build gives each distinct symbol of the corpus the id equal to its
\* rank in code-point order: vocab_size is the number of distinct symbols,
\* char_to_idx is a bijection onto 0..vocab_size-1 with idx_to_char as its
\* inverse, every corpus with the same set of distinct symbols gets the
\* same assignment, and "hello, world" gets ' '->0 ... 'w'->8.
C2_RankIds ==
    CodecBuilt =>
        /\ vocab_size = Cardinality(set(content))
        /\ DOMAIN char_to_idx = set(content)
        /\ DOMAIN idx_to_char = 0..(vocab_size - 1)
        /\ \A c \in set(content) :
             /\ char_to_idx[c] = Cardinality({d \in set(content) : d < c})
             /\ idx_to_char[char_to_idx[c]] = c
        /\ \A i \in 0..(vocab_size - 1) : char_to_idx[idx_to_char[i]] = i
        /\ (stage = "codec" /\ Idle) =>
             \A t \in SeqsUpTo(Alphabet, MaxLen) :
                set(t) = set(content) =>
                    /\ mk_char_to_idx(BuildChars(t)) = char_to_idx
                    /\ mk_idx_to_char(BuildChars(t)) = idx_to_char
        /\ HelloWorldIds

\* a three-symbol vocabulary whose corpus does not start in sorted order
C2_Witness ==
    /\ CodecBuilt
    /\ vocab_size = 3
    /\ content[1] > content[2]
    /\ content[1] = content[Len(content)]

\* C3: split completeness. With n = floor(train_fraction * len(data)),
\* train_data is data[0:n] and val_data is data[n:len]; the two lengths add
\* up to len(data) and train followed by validation is the corpus, element
\* for element; an empty region (n = 0) is returned without error.
C3_SplitComplete ==
    stage = "ready" =>
        LET train == Values(data, train_data)
            val == Values(data, val_data)
        IN  /\ 10 * n <= train_tenths * Len(data)
            /\ train_tenths * Len(data) < 10 * (n + 1)
            /\ train = SubSeq(data, 1, n)
            /\ val = SubSeq(data, n + 1, Len(data))
            /\ Len(train) + Len(val) = Len(data)
            /\ train \o val = data

\* the notebook's ratio 0.9 has cut a corpus into two non-empty regions
C3_Witness ==
    /\ stage = "ready"
    /\ train_tenths = 9
    /\ train_data.len > 0
    /\ val_data.len > 0

\* C4: window shift law. For start + length + 1 <= len(region) the window
\* is context = region[start : start+length] and target =
\* region[start+1 : start+length+1], both `length` long; target[k] is the
\* symbol that follows context[0..k] in the region, and target[k] is
\* context[k+1] for every k but the last.
C4_WindowShift ==
    (result.op = "window" /\ result.start + result.length + 1 <= Len(region))
        => /\ Len(result.context) = result.length
           /\ Len(result.target) = result.length
           /\ \A k \in 1..result.length :
                /\ result.context[k] = region[result.start + k]
                /\ result.target[k] = region[result.start + k + 1]
                /\ k < result.length => result.target[k] = result.context[k + 1]

\* a window of at least two symbols, not at offset 0, that fits the region
\* and whose context is not constant
C4_Witness ==
    /\ result.op = "window"
    /\ result.start + result.length + 1 <= Len(region)
    /\ result.start >= 1
    /\ result.length >= 2
    /\ result.context[1] # result.context[2]

\* the first nine ids of the corpus; block_size = 8 gives eight examples,
\* the fifth being ([18, 47, 56, 57, 58], 1)
FirstCitizen == <<18, 47, 56, 57, 58, 1, 15, 47, 58>>

FirstCitizenExamples ==
    LET g == generate_at(FirstCitizen, Whole(FirstCitizen), 0, block_size)
    IN  /\ g.error = "none"
        /\ Len(g.examples) = 8
        /\ g.examples[5] = [context |-> <<18, 47, 56, 57, 58>>, target |-> 1]

\* C5: generate_at yields its examples in increasing context length; the
\* example for context length c is (region[start : start+c],
\* region[start+c]); with start + max_context < len(region) there are
\* exactly max_context of them; the i-th is (window.context[0..i],
\* window.target[i]) of window(region, start, max_context).
C5_GenerateAt ==
    result.op = "generate_at" =>
        LET w == window(train_data, result.start, result.length)
            ex == result.examples
        IN  /\ \A c \in 1..Len(ex) :
                 /\ Len(ex[c].context) = c
                 /\ \A k \in 1..c : ex[c].context[k] = region[result.start + k]
                 /\ ex[c].target = region[result.start + c + 1]
                 /\ ex[c].context = SubSeq(Values(data, w.context), 1, c)
                 /\ ex[c].target = Values(data, w.target)[c]
            /\ result.start + result.length < Len(region) =>
                 /\ Len(ex) = result.length
                 /\ result.error = "none"
            /\ FirstCitizenExamples

\* the loop has run to its end on a region long enough, not at offset 0
C5_Witness ==
    /\ result.op = "generate_at"
    /\ result.start >= 1
    /\ result.length >= 2
    /\ result.start + result.length < Len(region)
    /\ Len(result.examples) = result.length

\* C6: on a region too short for max_context targets generate_at stops
\* early and raises nothing: for 0 <= start < L it yields exactly
\* min(max_context, L - start - 1) examples, each target inside the region;
\* with start = L-1, and on an empty region, it yields none.  Stated for
\* the regions of a non-empty corpus.
C6_StopsEarly ==
    (/\ result.op = "generate_at"
     /\ content # <<>>
     /\ (result.start < Len(region) \/ Len(region) = 0))
        => /\ result.error = "none"
           /\ Len(result.examples) =
                IF Len(region) = 0 THEN 0
                ELSE Min(result.length, Len(region) - result.start - 1)
           /\ \A c \in 1..Len(result.examples) :
                /\ result.start + c + 1 <= Len(region)
                /\ result.examples[c].target = region[result.start + c + 1]

\* C7: window fails (RangeError) whenever start + length + 1 > len(region);
\* it never returns a context or a target shorter than `length`.  Stated
\* for the regions of a non-empty corpus.
C7_WindowRangeError ==
    (/\ result.op = "window"
     /\ content # <<>>
     /\ result.start + result.length + 1 > Len(region))
        => /\ result.error # "none"
           /\ result.context = <<>>
           /\ result.target = <<>>

\* the first symbol of s that is no key of the vocabulary
FirstUnknown(s) ==
    s[CHOOSE k \in 1..Len(s) :
        /\ s[k] \notin Range(chars)
        /\ \A j \in 1..(k - 1) : s[j] \in Range(chars)]

\* C8: encode fails at the first symbol of the text that is absent from the
\* vocabulary and returns no ids; it never skips or substitutes a symbol:
\* what it returns has len(text) ids, each in [0, vocab_size), the i-th
\* being the id of the i-th symbol.
C8_EncodeHardStop ==
    result.op = "encode" =>
        IF Range(result.text) \subseteq Range(chars)
        THEN /\ result.error = "none"
             /\ Len(result.ids) = Len(result.text)
             /\ \A i \in 1..Len(result.text) :
                  /\ result.ids[i] \in 0..(vocab_size - 1)
                  /\ chars[result.ids[i] + 1] = result.text[i]
        ELSE /\ result.error = "KeyError"
             /\ result.key = FirstUnknown(result.text)
             /\ result.ids = <<>>

\* encode has met an unknown symbol after a known one
C8_Witness ==
    /\ result.op = "encode"
    /\ Len(result.text) = 2
    /\ result.text[1] \in Range(chars)
    /\ result.text[2] \notin Range(chars)
    /\ result.error = "KeyError"

\* C9: build on the empty text fails; no vocabulary of size 0 is built.
C9_EmptyCorpusRejected ==
    stage # "loaded" => vocab_size > 0

\* C10: the pipeline values are read-only. No call (encode, decode, the
\* slices, train_data[:block_size]+1, the window, the loop) changes the
\* vocabulary mappings, the encoded corpus or the two regions, so a call
\* repeated with the same arguments reads the same values again.
C10_ReadOnly ==
    [][ /\ CodecBuilt =>
             /\ chars' = chars
             /\ vocab_size' = vocab_size
             /\ char_to_idx' = char_to_idx
             /\ idx_to_char' = idx_to_char
        /\ stage \in {"stored", "ready"} => data' = data
        /\ stage = "ready" =>
             /\ train_data' = train_data
             /\ val_data' = val_data
             /\ Values(data', train_data') = Values(data, train_data)
             /\ Values(data', val_data') = Values(data, val_data) ]_vars

\* train_data[:block_size]+1 has produced a non-empty tensor
C10_Witness ==
    /\ result.op = "plus_one"
    /\ result.ids # <<>>
    /\ \A i \in 1..Len(result.ids) : result.ids[i] = region[i] + 1

====
